---- MODULE Spec2Model ----
(***************************************************************************)
(* SyntheticFlatGUI.py: the distance memo (dist_from_center / cached_dist), *)
(* the radial-profile accumulation and normalisation (calc_rad_profile),    *)
(* the histogram (calc_histograms), the reconstruction of the flat          *)
(* (calc_synthetic_flat / write_flat_pixel) and the batch driver            *)
(* (NewGUI.process / stop / check_stop).                                    *)
(*                                                                          *)
(* Each function is a state machine of its own with its own specification;  *)
(* the variables of the machines a specification does not run stay at       *)
(* their idle values.                                                       *)
(***************************************************************************)
EXTENDS Integers, Sequences, FiniteSets, TLC

VARIABLES
    \* ---- dist_from_center / cached_dist ----------------------------------
    d_size,       \* <<height, width>> of the image the calls are made for
    cache,        \* the lru_cache of cached_dist: key <<dx, dy>> -> value
    d_prev,       \* the call before the last one: [i, j, key, val] or None
    d_last        \* the last call of dist_from_center

distVars == <<d_size, cache, d_prev, d_last>>

VARIABLES
    \* ---- calc_synthetic_flat / write_flat_pixel ---------------------------
    tif_size,     \* the requested size, as passed by the caller
    grey_flat,    \* the grey_flat flag
    rad_profile,  \* the smoothed profile passed in (see ProfileAt)
    im_syn,       \* the output array: <<row, col>> -> value
    f_di, f_dj,   \* the loop variables di, dj
    f_k,          \* the loop variable k; 0 before the k loop of (di, dj)
    r_index,      \* r_index of the current (di, dj)
    f_pc,         \* idle | loop | convert | done | raised
    first_val,    \* history: the first non-zero value written to each pixel
    f_written,    \* history: the pixels a write has targeted
    f_last,       \* history: <<row index, targets, k>> as passed to
                  \* write_flat_pixel by the last pass of the k loop, or <<>>
    f_zeros       \* the zero-pixel count printed before the integer conversion

flatVars == <<tif_size, grey_flat, rad_profile, im_syn, f_di, f_dj, f_k,
              r_index, f_pc, first_val, f_written, f_last, f_zeros>>

VARIABLES
    \* ---- calc_rad_profile: accumulation, statistics, edge cut -------------
    image,             \* the input image (see PixelValue)
    image_size,        \* <<image_height, image_width>>
    resolution_factor, \* the stride
    statistics,        \* the statistics argument, read on lines 201-203
    extrapolate_max,   \* the extrapolate_max argument, read on line 226
    r_i, r_j,          \* the loop variables i, j
    radii,             \* the list radii, in order of first appearance
    rad_counts,        \* rad -> <<R samples, pooled G samples, B samples>>
    r_profile,         \* rad_profile: rows [rad, val], val = <<R, G, B>>
    r_raw_mean,        \* rad_profile_raw_mean
    r_cut,             \* rad_profile_cut
    r_maxind,          \* maxind of line 227, <<>> until the peak skip has run
    r_reported,        \* "Something ist wrong!!" was printed (line 214)
    r_outcome,         \* none | raised | smoothed
    r_pc               \* idle | loop | stats | safety | cut | smooth | done

radVars == <<image, image_size, resolution_factor, statistics, extrapolate_max,
             r_i, r_j, radii, rad_counts, r_profile, r_raw_mean, r_cut,
             r_maxind, r_reported, r_outcome, r_pc>>

VARIABLES
    \* ---- calc_histograms ---------------------------------------------------
    h_image,      \* the input image (see HistValue)
    h_size,       \* <<height, width>>
    circular,     \* the circular flag
    image_rgb,    \* merge_green(image): <<i, j, c>> -> <<twice the value>>, or NaN
    h_c,          \* the loop variable c
    data,         \* the count columns stacked so far (the bins column apart)
    h_pc          \* idle | loop | done

histVars == <<h_image, h_size, circular, image_rgb, h_c, data, h_pc>>

VARIABLES
    \* ---- calc_rad_profile, "normalize by smoothed curve" --------------------
    rad_profile_raw_mean,  \* rows <<radius, R, G, B>> of fractions <<num, den>>
    n_rad_profile,         \* rad_profile, the same layout
    rad_profile_cut,
    rad_profile_smoothed,
    n_c,                   \* the loop variable c
    n_before,              \* history: the four arrays as the loop found them
    n_pc                   \* idle | loop | done

normVars == <<rad_profile_raw_mean, n_rad_profile, rad_profile_cut,
              rad_profile_smoothed, n_c, n_before, n_pc>>

VARIABLES
    \* ---- NewGUI: Start, Stop and process() ----------------------------------
    running,          \* self.running
    asked_stop,       \* self.asked_stop
    label_status,     \* self.label_status_var
    loaded_files,     \* len(self.loaded_files)
    options,          \* the check boxes read by process()
    p_pc,             \* thread -> its position in process()
    p_counter,        \* thread -> counter, the number of the file in work
    p_stage,          \* thread -> the stage in work
    s_pc,             \* the position of the Stop callback: idle | label
    p_outcome,        \* history: thread -> the way its process() left
    p_stop_seen,      \* history, while the thread lives: stop() ran in its batch
    p_raised,         \* history, while the thread lives: the file that raised, or 0
    cache_used,       \* cached_dist holds entries (cache_info().currsize > 0)
    p_radprof,        \* thread -> the file whose profile radprof4 holds, 0: unbound
    p_stop_stage      \* history, while the thread lives: <<file, stage>> that
                      \* was executing when stop() ran, or <<>>

procVars == <<running, asked_stop, label_status, loaded_files, options, p_pc,
              p_counter, p_stage, s_pc, p_outcome, p_stop_seen, p_raised,
              cache_used, p_radprof, p_stop_stage>>

vars == <<distVars, flatVars, radVars, histVars, normVars, procVars>>

None == [none |-> TRUE]

Abs(n) == IF n < 0 THEN -n ELSE n

Min2(a, b) == IF a <= b THEN a ELSE b

Max2(a, b) == IF a <= b THEN b ELSE a

EmptyCache == [k \in {} |-> None]

(***************************************************************************)
(* The idle values of each machine's variables.                            *)
(***************************************************************************)
DistIdle ==
    /\ d_size = <<0, 0>>
    /\ cache = EmptyCache
    /\ d_prev = None
    /\ d_last = None

FlatIdle ==
    /\ tif_size = <<0, 0>>
    /\ grey_flat = FALSE
    /\ rad_profile = "const"
    /\ im_syn = <<>>
    /\ f_di = 0
    /\ f_dj = 0
    /\ f_k = 0
    /\ r_index = 0
    /\ f_pc = "idle"
    /\ first_val = <<>>
    /\ f_written = {}
    /\ f_last = <<>>
    /\ f_zeros = 0

(***************************************************************************)
(* Bounds of the model.                                                    *)
(***************************************************************************)
MaxDistDim == 4      \* dist_from_center: heights and widths 1..MaxDistDim
MaxShortSide == 8    \* calc_synthetic_flat: the shorter side is 1..MaxShortSide
MaxLongSide == 28    \* calc_synthetic_flat: the longer side is 1..MaxLongSide
TailIndex == 60000   \* the row from which the "tail" profile is zero
MaxRadDim == 22      \* calc_rad_profile: heights and widths from 2 * IGNORE_EDGE
WideRadDim == 70     \* calc_rad_profile: the width of the wide images
MaxHistDim == 4      \* calc_histograms: heights and widths 1..MaxHistDim
NormRows == 2        \* normalisation: rows of each profile array
MaxNormVal == 3      \* normalisation: profile values -1..MaxNormVal
NumThreads == 2      \* process: the number of Start clicks
MaxFiles == 2        \* process: 0..MaxFiles loaded files

(***************************************************************************)
(* Static settings of the program.                                         *)
(***************************************************************************)
IGNORE_EDGE == 10
IGNORE_RADII == 5
RADIAL_RESOLUTION == 100000
HistRange == 4096    \* 2 ** 12, the upper end of the histogram range
HistEdges == 256     \* 2 ** 8, the number of bin edges

RadIdle ==
    /\ image = None
    /\ image_size = <<0, 0>>
    /\ resolution_factor = 1
    /\ statistics = "mean"
    /\ extrapolate_max = FALSE
    /\ r_i = 0
    /\ r_j = 0
    /\ radii = <<>>
    /\ rad_counts = EmptyCache
    /\ r_profile = <<>>
    /\ r_raw_mean = <<>>
    /\ r_cut = <<>>
    /\ r_maxind = <<>>
    /\ r_reported = FALSE
    /\ r_outcome = "none"
    /\ r_pc = "idle"

HistIdle ==
    /\ h_image = "none"
    /\ h_size = <<0, 0>>
    /\ circular = FALSE
    /\ image_rgb = <<>>
    /\ h_c = 0
    /\ data = <<>>
    /\ h_pc = "idle"

NormIdle ==
    /\ rad_profile_raw_mean = <<>>
    /\ n_rad_profile = <<>>
    /\ rad_profile_cut = <<>>
    /\ rad_profile_smoothed = <<>>
    /\ n_c = 0
    /\ n_before = <<>>
    /\ n_pc = "idle"

ProcIdle ==
    /\ running = FALSE
    /\ asked_stop = FALSE
    /\ label_status = ""
    /\ loaded_files = 0
    /\ options = <<>>
    /\ p_pc = <<>>
    /\ p_counter = <<>>
    /\ p_stage = <<>>
    /\ s_pc = "idle"
    /\ p_outcome = <<>>
    /\ p_stop_seen = <<>>
    /\ p_raised = <<>>
    /\ cache_used = FALSE
    /\ p_radprof = <<>>
    /\ p_stop_stage = <<>>

(***************************************************************************)
(* Numbers.  A float that is the root of an integer is kept as that        *)
(* integer under the root, [root |-> n] for sqrt(n): math.sqrt is          *)
(* injective on the integers that occur, so two such values are equal iff  *)
(* their radicands are.                                                    *)
(***************************************************************************)
RECURSIVE ISqrtFrom(_, _)
ISqrtFrom(n, r) == IF (r + 1) * (r + 1) > n THEN r ELSE ISqrtFrom(n, r + 1)

\* int(math.sqrt(n)) for an integer n >= 0
ISqrt(n) == ISqrtFrom(n, 0)

\* int(abs(i - size / 2)): the offset |2i - size| / 2 truncated toward zero
TruncOffset(i, size) == Abs(2 * i - size) \div 2

\* line 479 without the sort: the pair in argument order
UnsortedPair(dx, dy) == <<dx, dy>>

\* dx, dy = sorted([dx, dy])
SortedPair(dx, dy) == <<Min2(dx, dy), Max2(dx, dy)>>

\* the root of dx^2 + dy, a slip in the second square
cached_dist_nosquare(dx, dy) == [root |-> dx * dx + dy]

\* cached_dist(dx, dy) = math.sqrt(math.pow(dx, 2) + math.pow(dy, 2))
cached_dist(dx, dy) == [root |-> dx * dx + dy * dy]

\* the key dist_from_center looks up for pixel (i, j)
DistKey(i, j, height, width) ==
    SortedPair(TruncOffset(i, height), TruncOffset(j, width))

\* the lru_cache wrapper: a hit returns the stored value, a miss computes it
CacheLookup(c, key) ==
    IF key \in DOMAIN c THEN c[key] ELSE cached_dist(key[1], key[2])

CacheStore(c, key) ==
    IF key \in DOMAIN c THEN c
    ELSE [k \in DOMAIN c \cup {key} |->
            IF k = key THEN cached_dist(key[1], key[2]) ELSE c[k]]

\* dist_from_center(i, j, height, width) evaluated against cache c
dist_from_center(c, i, j, height, width) ==
    CacheLookup(c, DistKey(i, j, height, width))

(***************************************************************************)
(* Machine 1: calls of dist_from_center for the pixels of one image, and   *)
(* cached_dist.cache_clear() when the next image is taken up.              *)
(***************************************************************************)
DistSizes == (1..MaxDistDim) \X (1..MaxDistDim)

DistInit ==
    /\ FlatIdle
    /\ RadIdle
    /\ HistIdle
    /\ NormIdle
    /\ ProcIdle
    /\ d_size \in DistSizes
    /\ cache = EmptyCache
    /\ d_prev = None
    /\ d_last = None

DistCall ==
    \E i \in 0..(d_size[1] - 1), j \in 0..(d_size[2] - 1) :
        LET key == DistKey(i, j, d_size[1], d_size[2]) IN
        /\ d_last' = [i |-> i, j |-> j, key |-> key,
                      val |-> dist_from_center(cache, i, j, d_size[1], d_size[2])]
        /\ d_prev' = d_last
        /\ cache' = CacheStore(cache, key)
        /\ UNCHANGED d_size
        /\ UNCHANGED <<flatVars, radVars, histVars, normVars, procVars>>

\* process(): cached_dist.cache_clear() after a file, then the next file
DistNextImage ==
    /\ d_last # None
    /\ \E s \in DistSizes : d_size' = s
    /\ cache' = EmptyCache
    /\ d_prev' = None
    /\ d_last' = None
    /\ UNCHANGED <<flatVars, radVars, histVars, normVars, procVars>>

DistNext == DistCall \/ DistNextImage

SpecDist == DistInit /\ [][DistNext]_vars

(***************************************************************************)
(* Machine 2: calc_synthetic_flat(rad_profile, grey_flat, tif_size).       *)
(*                                                                         *)
(* The profile has RADIAL_RESOLUTION rows and is kept as a descriptor; its *)
(* entries are computed on demand by ProfileAt.  A value of the output is  *)
(* the fraction <<num, den>>: the profile entry num over the maximum den   *)
(* of its column (the renormalisation of lines 321-322).  A pixel keeps    *)
(* one parity, hence one column, so two values of one pixel have the same  *)
(* denominator and are equal iff the pairs are.  The values of the final   *)
(* 16-bit image are not represented; its shape and zero count are.         *)
(***************************************************************************)
Profiles == {"const", "ramp", "tail"}

\* rad_profile[idx, col] before the renormalisation, col in 1..3 (R, G, B)
ProfileAt(p, idx, col) ==
    CASE p = "const" -> 1
      [] p = "ramp"  -> RADIAL_RESOLUTION + col - idx
      [] p = "tail"  -> IF idx < TailIndex THEN TailIndex + col - idx ELSE 0

\* np.max(rad_profile[:, col])
ProfileMax(p, col) == ProfileAt(p, 0, col)

\* rad_profile[idx, col] after rad_profile[:, c + 1] / np.max(...)
Normalized(p, idx, col) == <<ProfileAt(p, idx, col), ProfileMax(p, col)>>

Zero == <<0, 1>>

IsZero(v) == v[1] = 0

\* height, width = tif_size: the size taken as given
AsGiven(size) == size

\* height, width = sorted(tif_size)
SortedSize(size) == <<Min2(size[1], size[2]), Max2(size[1], size[2])>>

Height == SortedSize(tif_size)[1]

Width == SortedSize(tif_size)[2]

halfheight == Height \div 2

halfwidth == Width \div 2

Pixels(h, w) == (0..(h - 1)) \X (0..(w - 1))

\* a * a * c as <<millions, rest>>, for a < 100000 and c < 1000
SqTimes(a, c) ==
    LET a1 == a \div 1000
        a0 == a % 1000
        t0 == a0 * a0 * c
        s1 == 2 * a1 * a0 * c + (t0 \div 1000)
    IN  <<a1 * a1 * c + (s1 \div 1000), (s1 % 1000) * 1000 + (t0 % 1000)>>

BigLeq(x, y) == x[1] < y[1] \/ (x[1] = y[1] /\ x[2] <= y[2])

RECURSIVE Bisect(_, _, _, _)
Bisect(lo, hi, d2, m2) ==
    IF lo >= hi THEN lo
    ELSE LET mid == (lo + hi + 1) \div 2 IN
         IF BigLeq(SqTimes(mid, m2), SqTimes(RADIAL_RESOLUTION - 1, d2))
         THEN Bisect(mid, hi, d2, m2)
         ELSE Bisect(lo, mid - 1, d2, m2)

\* int((RADIAL_RESOLUTION - 1) * (dist / maxrad_this)) for dist = sqrt(d2),
\* maxrad_this = sqrt(m2), d2 <= m2: the largest n with n^2 m2 <= (R-1)^2 d2
RIndex(d2, m2) == Bisect(0, RADIAL_RESOLUTION - 1, d2, m2)

\* the Bayer pattern with R and B exchanged
PixelColumn_swapped(grey, i, j) ==
    IF grey THEN 2
    ELSE IF i % 2 = 0 /\ j % 2 = 0 THEN 3
    ELSE IF i % 2 = 1 /\ j % 2 = 1 THEN 1
    ELSE 2

\* the column write_flat_pixel reads for pixel (i, j)
PixelColumn(grey, i, j) ==
    IF grey THEN 2
    ELSE IF i % 2 = 0 /\ j % 2 = 0 THEN 1
    ELSE IF i % 2 = 1 /\ j % 2 = 1 THEN 3
    ELSE 2

\* numpy index: a negative index counts from the end, anything else outside
\* the axis is an IndexError
InAxis(n, size) == -size <= n /\ n < size

Wrap(n, size) == IF n < 0 THEN n + size ELSE n

\* a test that lets the multiple reach the half sizes
InQuadrant_inclusive(di, dj, k) ==
    di * k <= halfheight /\ dj * k <= halfwidth

\* line 354: di * k < halfheight - 0.5 and dj * k < halfwidth - 0.5
InQuadrant(di, dj, k) ==
    2 * di * k < 2 * halfheight - 1 /\ 2 * dj * k < 2 * halfwidth - 1

\* the targets with the upper left quadrant left out
Targets_three_quadrants(di, dj, k) ==
    << <<halfheight + di * k, halfwidth + dj * k>>,
       <<halfheight + di * k, halfwidth - 1 - dj * k>>,
       <<halfheight - 1 - di * k, halfwidth + dj * k>>,
       <<halfheight - 1 - di * k, halfwidth + dj * k>> >>

\* the four targets of one (di, dj, k) step, in the order of lines 357-360
Targets(di, dj, k) ==
    << <<halfheight + di * k, halfwidth + dj * k>>,
       <<halfheight + di * k, halfwidth - 1 - dj * k>>,
       <<halfheight - 1 - di * k, halfwidth + dj * k>>,
       <<halfheight - 1 - di * k, halfwidth - 1 - dj * k>> >>

WriteOk(idx, t) ==
    /\ InAxis(idx, RADIAL_RESOLUTION)
    /\ InAxis(t[1], Height)
    /\ InAxis(t[2], Width)

\* a write that adds the profile value to a pixel that already holds it
write_flat_pixel_additive(im, p, grey, idx, t) ==
    LET i == Wrap(t[1], Height)
        j == Wrap(t[2], Width)
        v == Normalized(p, Wrap(idx, RADIAL_RESOLUTION), PixelColumn(grey, i, j))
    IN  [im EXCEPT ![<<i, j>>] = IF @ = v THEN <<2 * v[1], v[2]>> ELSE v]

\* write_flat_pixel(im_syn, rad_profile, grey_flat, idx, t[1], t[2])
write_flat_pixel(im, p, grey, idx, t) ==
    LET i == Wrap(t[1], Height)
        j == Wrap(t[2], Width)
    IN  [im EXCEPT ![<<i, j>>] =
            Normalized(p, Wrap(idx, RADIAL_RESOLUTION), PixelColumn(grey, i, j))]

\* a write that leaves a pixel alone once it holds a non-zero value
write_flat_pixel_guarded(im, p, grey, idx, t) ==
    LET i == Wrap(t[1], Height)
        j == Wrap(t[2], Width)
    IN  IF IsZero(im[<<i, j>>]) THEN write_flat_pixel(im, p, grey, idx, t) ELSE im

RECURSIVE WriteAll(_, _, _, _, _, _)
WriteAll(im, p, grey, idx, ts, n) ==
    IF n > Len(ts) THEN im
    ELSE WriteAll(write_flat_pixel(im, p, grey, idx, ts[n]), p, grey, idx, ts, n + 1)

\* history: remember the first non-zero value each pixel received
RECURSIVE FirstAll(_, _, _, _, _, _, _)
FirstAll(fv, im, p, grey, idx, ts, n) ==
    IF n > Len(ts) THEN fv
    ELSE LET t   == <<Wrap(ts[n][1], Height), Wrap(ts[n][2], Width)>>
             im2 == write_flat_pixel(im, p, grey, idx, ts[n])
             fv2 == IF IsZero(fv[t]) THEN [fv EXCEPT ![t] = im2[t]] ELSE fv
         IN  FirstAll(fv2, im2, p, grey, idx, ts, n + 1)

TifSizes ==
    {s \in (1..MaxLongSide) \X (1..MaxLongSide) : Min2(s[1], s[2]) <= MaxShortSide}

\* lines 315-325: the zeroed output, then the loops are entered
FlatInit ==
    /\ DistIdle
    /\ RadIdle
    /\ HistIdle
    /\ NormIdle
    /\ ProcIdle
    /\ tif_size \in TifSizes
    /\ grey_flat \in BOOLEAN
    /\ rad_profile \in Profiles
    /\ im_syn = [px \in Pixels(Height, Width) |-> Zero]
    /\ first_val = [px \in Pixels(Height, Width) |-> Zero]
    /\ f_written = {}
    /\ f_last = <<>>
    /\ f_di = 0
    /\ f_dj = 0
    /\ f_k = 0
    /\ r_index = 0
    /\ f_pc = IF halfheight > 0 /\ halfwidth > 0 THEN "loop" ELSE "convert"
    /\ f_zeros = 0

\* the next (di, dj) of the two for loops, or the end of the loops
FlatAdvance ==
    IF f_dj + 1 < halfwidth
    THEN /\ f_di' = f_di
         /\ f_dj' = f_dj + 1
         /\ f_pc' = "loop"
    ELSE /\ f_di' = f_di + 1
         /\ f_dj' = 0
         /\ f_pc' = IF f_di + 1 < halfheight THEN "loop" ELSE "convert"

\* lines 331-348: the already-written check and r_index of (di, dj)
FlatBase ==
    /\ f_pc = "loop"
    /\ f_k = 0
    /\ LET i  == halfheight + f_di
           j  == halfwidth + f_dj
           d  == dist_from_center(EmptyCache, i, j, Height, Width)
           mx == dist_from_center(EmptyCache, 0, 0, Height, Width)
       IN  IF ~IsZero(im_syn[<<i, j>>])
           THEN /\ FlatAdvance
                /\ UNCHANGED <<f_k, r_index>>
           ELSE /\ r_index' = RIndex(d.root, mx.root)
                /\ IF 1 < halfheight
                   THEN /\ f_k' = 1
                        /\ UNCHANGED <<f_di, f_dj, f_pc>>
                   ELSE /\ f_k' = 0
                        /\ FlatAdvance
    /\ UNCHANGED <<tif_size, grey_flat, rad_profile, im_syn, first_val, f_written,
                   f_last, f_zeros>>
    /\ UNCHANGED <<distVars, radVars, histVars, normVars, procVars>>

\* lines 353-362: one pass of the k loop
FlatWrite ==
    /\ f_pc = "loop"
    /\ f_k >= 1
    /\ IF InQuadrant(f_di, f_dj, f_k)
       THEN LET ts  == Targets(f_di, f_dj, f_k)
                idx == r_index * f_k
            IN  IF \A n \in 1..4 : WriteOk(idx, ts[n])
                THEN /\ im_syn' = WriteAll(im_syn, rad_profile, grey_flat, idx, ts, 1)
                     /\ first_val' = FirstAll(first_val, im_syn, rad_profile,
                                              grey_flat, idx, ts, 1)
                     /\ f_written' = f_written \cup
                            {<<Wrap(ts[n][1], Height), Wrap(ts[n][2], Width)>> :
                                n \in 1..4}
                     /\ f_last' = <<idx, ts, f_k>>
                     /\ IF f_k + 1 < halfheight
                        THEN /\ f_k' = f_k + 1
                             /\ UNCHANGED <<f_di, f_dj, f_pc>>
                        ELSE /\ f_k' = 0
                             /\ FlatAdvance
                ELSE /\ f_pc' = "raised"
                     /\ f_last' = <<idx, ts, f_k>>
                     /\ UNCHANGED <<im_syn, first_val, f_written, f_k, f_di, f_dj>>
       ELSE /\ f_k' = 0
            /\ FlatAdvance
            /\ UNCHANGED <<im_syn, first_val, f_written, f_last>>
    /\ UNCHANGED <<tif_size, grey_flat, rad_profile, r_index, f_zeros>>
    /\ UNCHANGED <<distVars, radVars, histVars, normVars, procVars>>

\* lines 364-375: the zero count, the conversion and the return
FlatFinish ==
    /\ f_pc = "convert"
    /\ f_zeros' = Cardinality({px \in DOMAIN im_syn : IsZero(im_syn[px])})
    /\ f_pc' = "done"
    /\ UNCHANGED <<tif_size, grey_flat, rad_profile, im_syn, f_di, f_dj, f_k,
                   r_index, first_val, f_written, f_last>>
    /\ UNCHANGED <<distVars, radVars, histVars, normVars, procVars>>

FlatNext == FlatBase \/ FlatWrite \/ FlatFinish

SpecFlat == FlatInit /\ [][FlatNext]_vars

\* im_syn.shape of the returned image
FlatShape == <<Height, Width>>

(***************************************************************************)
(* Machine 3: calc_rad_profile(image, statistics, extrapolate_max,         *)
(* resolution_factor), lines 175-259: the accumulation loop, one pixel a   *)
(* step, the statistics per radius, the safety report, the edge cut and    *)
(* the entry into the smoothing.  The image is kept as a descriptor: which *)
(* pixels hold a non-positive sample, and in which channel.  A statistic   *)
(* is the fraction <<num, den>>.  savgol_filter and interp1d are not       *)
(* computed: of the smoothing only whether it can run is modelled, and the *)
(* peak index it finds is any row.                                         *)
(***************************************************************************)
Images ==
    {[bad |-> "none", ch |-> 0]}
    \cup {[bad |-> "all", ch |-> c] : c \in {0, 3}}
    \cup {[bad |-> "checker", ch |-> c] : c \in {1, 2}}
    \cup {[bad |-> "rows", ch |-> 0]}

\* pixel (i, j) holds a non-positive sample in channel img.ch
PixelBad(img, i, j) ==
    CASE img.bad = "none"    -> FALSE
      [] img.bad = "all"     -> TRUE
      [] img.bad = "checker" -> (i + j) % 2 = 0
      [] img.bad = "rows"    -> i % 3 = 0

\* image[i, j, c], c in 0..3 (R, G1, G2, B)
PixelValue(img, i, j, c) ==
    IF PixelBad(img, i, j) /\ c = img.ch THEN 0 ELSE 1 + ((i + 2 * j + c) % 4)

\* line 183
Positive(img, i, j) == \A c \in 0..3 : PixelValue(img, i, j, c) > 0

\* line 185, negated
EdgeOk(i, j, h, w) ==
    ~(i < IGNORE_EDGE \/ j < IGNORE_EDGE \/ i > h - IGNORE_EDGE \/ j > w - IGNORE_EDGE)

\* line 187
StrideOk(i, j, f) == i % f = 0 /\ j % f = 0

\* int(dist_from_center(i, j, image_height, image_width))
RadOf(i, j, h, w) == ISqrt(dist_from_center(EmptyCache, i, j, h, w).root)

\* lines 192-195 with the second green sample sent to the blue bin
AppendSamples_g2blue(bins, img, i, j) ==
    << Append(bins[1], PixelValue(img, i, j, 0)),
       Append(bins[2], PixelValue(img, i, j, 1)),
       Append(Append(bins[3], PixelValue(img, i, j, 2)), PixelValue(img, i, j, 3)) >>

\* lines 192-195
AppendSamples(bins, img, i, j) ==
    << Append(bins[1], PixelValue(img, i, j, 0)),
       Append(Append(bins[2], PixelValue(img, i, j, 1)), PixelValue(img, i, j, 2)),
       Append(bins[3], PixelValue(img, i, j, 3)) >>

RECURSIVE SeqSum(_)
SeqSum(q) == IF q = <<>> THEN 0 ELSE Head(q) + SeqSum(Tail(q))

RECURSIVE SeqMin(_)
SeqMin(q) == IF Len(q) = 1 THEN q[1] ELSE Min2(Head(q), SeqMin(Tail(q)))

RECURSIVE SeqMax(_)
SeqMax(q) == IF Len(q) = 1 THEN q[1] ELSE Max2(Head(q), SeqMax(Tail(q)))

\* np.mean(array)
Mean(q) == <<SeqSum(q), Len(q)>>

\* apply_statistics(array, statistics) for 'min', 'max' and the default mean
apply_statistics(q, stat) ==
    CASE stat = "min" -> <<SeqMin(q), 1>>
      [] stat = "max" -> <<SeqMax(q), 1>>
      [] OTHER        -> Mean(q)

RECURSIVE SortedSeq(_)
\* sorted(radii)
SortedSeq(S) ==
    IF S = {} THEN <<>>
    ELSE LET m == CHOOSE x \in S : \A y \in S : x <= y
         IN  <<m>> \o SortedSeq(S \ {m})

\* odd_int(n / d)
odd_int(n, d) == IF (n \div d) % 2 = 1 THEN n \div d ELSE (n \div d) + 1

\* a smoothing that accepts any number of rows
CanSmooth_always(n) == TRUE

\* savgol_filter(y, window_length, polyorder=2, mode='interp') of n rows runs:
\* polyorder < window_length <= n, for both windows (lines 230-233, 250-251);
\* otherwise it raises ValueError
CanSmooth(n) ==
    /\ 2 < odd_int(n, 10) /\ odd_int(n, 10) <= n
    /\ 2 < odd_int(n, 5)  /\ odd_int(n, 5) <= n

RadHeights == (2 * IGNORE_EDGE)..MaxRadDim

RadWidths == ((2 * IGNORE_EDGE)..MaxRadDim) \cup {WideRadDim}

ImageHeight == image_size[1]

ImageWidth == image_size[2]

\* maxrad = int(dist_from_center(0, 0, image_height, image_width))
maxrad == RadOf(0, 0, ImageHeight, ImageWidth)

\* lines 175-179
RadInit ==
    /\ DistIdle
    /\ FlatIdle
    /\ HistIdle
    /\ NormIdle
    /\ ProcIdle
    /\ image \in Images
    /\ image_size \in RadHeights \X RadWidths
    /\ resolution_factor \in {1, 2, 4}
    /\ statistics = "mean"
    /\ extrapolate_max = FALSE
    /\ r_i = 0
    /\ r_j = 0
    /\ radii = <<>>
    /\ rad_counts = EmptyCache
    /\ r_profile = <<>>
    /\ r_raw_mean = <<>>
    /\ r_cut = <<>>
    /\ r_maxind = <<>>
    /\ r_reported = FALSE
    /\ r_outcome = "none"
    /\ r_pc = "loop"

\* lines 180-195: the body of the loops for pixel (i, j)
RadPixel ==
    /\ r_pc = "loop"
    /\ LET rad == RadOf(r_i, r_j, ImageHeight, ImageWidth)
           old == IF rad \in DOMAIN rad_counts THEN rad_counts[rad]
                  ELSE << <<>>, <<>>, <<>> >>
       IN  IF /\ Positive(image, r_i, r_j)
              /\ EdgeOk(r_i, r_j, ImageHeight, ImageWidth)
              /\ StrideOk(r_i, r_j, resolution_factor)
           THEN /\ radii' = IF \E n \in 1..Len(radii) : radii[n] = rad
                            THEN radii ELSE Append(radii, rad)
                /\ rad_counts' =
                     [r \in DOMAIN rad_counts \cup {rad} |->
                        IF r = rad THEN AppendSamples(old, image, r_i, r_j)
                        ELSE rad_counts[r]]
           ELSE UNCHANGED <<radii, rad_counts>>
    /\ IF r_j + 1 < ImageWidth
       THEN /\ r_j' = r_j + 1
            /\ UNCHANGED <<r_i, r_pc>>
       ELSE /\ r_j' = 0
            /\ r_i' = r_i + 1
            /\ r_pc' = IF r_i + 1 < ImageHeight THEN "loop" ELSE "stats"
    /\ UNCHANGED <<image, image_size, resolution_factor, statistics,
                   extrapolate_max, r_profile, r_raw_mean, r_cut, r_maxind,
                   r_reported, r_outcome>>
    /\ UNCHANGED <<distVars, flatVars, histVars, normVars, procVars>>

\* lines 196-210: one row per radius, in ascending order; no statistic of a
\* non-empty list of positive samples is NaN, so line 209 drops no row
RadStats ==
    /\ r_pc = "stats"
    /\ \E stat \in {"mean", "min", "max"} :
        LET order == SortedSeq({radii[n] : n \in 1..Len(radii)}) IN
        /\ statistics' = stat
        /\ r_profile' =
             [n \in 1..Len(order) |->
                [rad |-> order[n],
                 val |-> [c \in 1..3 |-> apply_statistics(rad_counts[order[n]][c], stat)]]]
        /\ r_raw_mean' =
             [n \in 1..Len(order) |->
                [rad |-> order[n],
                 val |-> [c \in 1..3 |-> Mean(rad_counts[order[n]][c])]]]
    /\ r_pc' = "safety"
    /\ UNCHANGED <<image, image_size, resolution_factor, extrapolate_max, r_i, r_j,
                   radii, rad_counts, r_cut, r_maxind, r_reported, r_outcome>>
    /\ UNCHANGED <<distVars, flatVars, histVars, normVars, procVars>>

\* lines 212-214: the report, after which the function carries on
RadSafety ==
    /\ r_pc = "safety"
    /\ r_reported' = ~(Len(r_profile) > IGNORE_RADII * 2)
    /\ r_pc' = "cut"
    /\ UNCHANGED <<image, image_size, resolution_factor, statistics,
                   extrapolate_max, r_i, r_j, radii, rad_counts, r_profile,
                   r_raw_mean, r_cut, r_maxind, r_outcome>>
    /\ UNCHANGED <<distVars, flatVars, histVars, normVars, procVars>>

\* rad / maxrad > IGNORE_RADII / maxrad
AboveInner(row) == row.rad > IGNORE_RADII

\* rad / maxrad < 1 - IGNORE_RADII / maxrad; a pixel IGNORE_EDGE inside the
\* image is more than IGNORE_RADII short of maxrad, so the case of equality,
\* where the float rounding would decide, does not occur
BelowOuter(row) == row.rad < maxrad - IGNORE_RADII

\* lines 217-223
EdgeCut(profile) ==
    IF IGNORE_RADII # 0
    THEN SelectSeq(SelectSeq(profile, AboveInner), BelowOuter)
    ELSE profile

\* lines 216-223
RadCut ==
    /\ r_pc = "cut"
    /\ r_cut' = EdgeCut(r_profile)
    /\ r_pc' = "smooth"
    /\ UNCHANGED <<image, image_size, resolution_factor, statistics,
                   extrapolate_max, r_i, r_j, radii, rad_counts, r_profile,
                   r_raw_mean, r_maxind, r_reported, r_outcome>>
    /\ UNCHANGED <<distVars, flatVars, histVars, normVars, procVars>>

\* a peak skip that is never given up
SkipPeakCut_never(m, n) == FALSE

\* line 237: np.max(maxind) > int(rad_profile_cut.shape[0] / 2)
SkipPeakCut(m, n) == m > n \div 2

\* np.max(maxind)
Max3(p) == Max2(p[1], Max2(p[2], p[3]))

\* the arg-maxima of the three smoothed columns of n rows: any index for one
\* channel, the first or the last row for the others
PeakSets(n) == (0..(n - 1)) \X {0, n - 1} \X {0, n - 1}

\* lines 225-286: the peak skip and the smoothing; ValueError when
\* savgol_filter cannot run on the rows it is given
RadSmooth ==
    /\ r_pc = "smooth"
    /\ \E em \in BOOLEAN :
        /\ extrapolate_max' = em
        /\ IF ~CanSmooth(Len(r_cut))
           THEN /\ r_outcome' = "raised"
                /\ UNCHANGED <<r_cut, r_maxind>>
           ELSE IF em
           THEN \E p \in PeakSets(Len(r_cut)) :
                  /\ r_maxind' = p
                  /\ r_cut' = IF SkipPeakCut(Max3(p), Len(r_cut)) THEN r_cut
                              ELSE SubSeq(r_cut, Max3(p) + 1, Len(r_cut))
                  /\ r_outcome' = IF CanSmooth(Len(r_cut')) THEN "smoothed"
                                  ELSE "raised"
           ELSE /\ r_outcome' = "smoothed"
                /\ UNCHANGED <<r_cut, r_maxind>>
    /\ r_pc' = "done"
    /\ UNCHANGED <<image, image_size, resolution_factor, statistics, r_i, r_j,
                   radii, rad_counts, r_profile, r_raw_mean, r_reported>>
    /\ UNCHANGED <<distVars, flatVars, histVars, normVars, procVars>>

RadNext == RadPixel \/ RadStats \/ RadSafety \/ RadCut \/ RadSmooth

SpecRad == RadInit /\ [][RadNext]_vars

(***************************************************************************)
(* Machine 4: calc_histograms(image, circular), one channel a step.        *)
(* merge_green halves the sum of the two green planes, so image_rgb holds  *)
(* <<twice the value>>, an integer; NaN is the empty tuple.                *)
(***************************************************************************)
HistImages == {"inrange", "over", "under"}

NaN == <<>>

\* image[i, j, c], c in 0..3 (R, G1, G2, B), after the bias subtraction
HistValue(img, i, j, c) ==
    LET base == 10 * (i + 2 * j) + 500 * c + 1 IN
    CASE img = "inrange" -> base
      [] img = "over"    -> base + HistRange * ((i + j) % 2)
      [] img = "under"   -> base - 600 * ((i + j + 1) % 2)

\* merge_green(image)[i, j, c], c in 0..2 (R, G, B), times 2
MergedTwice(img, i, j, c) ==
    CASE c = 0 -> 2 * HistValue(img, i, j, 0)
      [] c = 1 -> HistValue(img, i, j, 1) + HistValue(img, i, j, 2)
      [] c = 2 -> 2 * HistValue(img, i, j, 3)

\* line 151: thisdist > height / 2 or thisdist > width / 2
OutsideCircle(i, j, h, w) ==
    LET d2 == dist_from_center(EmptyCache, i, j, h, w).root IN
    4 * d2 > h * h \/ 4 * d2 > w * w

\* the planes of image_rgb whose values line 155 or 157 hands to np.histogram
HistPlanes(c) == IF c = 1 THEN {1, 2} ELSE {c}

\* the bin of np.histogram(vals, np.linspace(0, 2 ** 12, 2 ** 8)) a value falls
\* in, for twice the value; the last bin is closed on the right
BinOf(tw) ==
    IF tw = 2 * HistRange THEN HistEdges - 2
    ELSE (tw * (HistEdges - 1)) \div (2 * HistRange)

\* np.histogram counts a value that is not NaN and lies within the edges
Counted(v) == v # NaN /\ 0 <= v[1] /\ v[1] <= 2 * HistRange

HistInit ==
    /\ DistIdle
    /\ FlatIdle
    /\ RadIdle
    /\ NormIdle
    /\ ProcIdle
    /\ h_image \in HistImages
    /\ h_size \in (1..MaxHistDim) \X (1..MaxHistDim)
    /\ circular \in BOOLEAN
    /\ image_rgb = [x \in Pixels(h_size[1], h_size[2]) \X (0..2) |->
                      <<MergedTwice(h_image, x[1][1], x[1][2], x[2])>>]
    /\ h_c = 0
    /\ data = <<>>
    /\ h_pc = "loop"

\* lines 146-165: the body of the loop for channel c
HistChannel ==
    /\ h_pc = "loop"
    /\ LET masked == IF circular
                     THEN [x \in DOMAIN image_rgb |->
                             IF x[2] = h_c /\ OutsideCircle(x[1][1], x[1][2],
                                                            h_size[1], h_size[2])
                             THEN NaN ELSE image_rgb[x]]
                     ELSE image_rgb
           vals   == {x \in DOMAIN masked : x[2] \in HistPlanes(h_c) /\ Counted(masked[x])}
           counts == [b \in 0..(HistEdges - 2) |->
                        Cardinality({x \in vals : BinOf(masked[x][1]) = b})]
       IN  /\ image_rgb' = masked
           /\ data' = Append(data, counts)
    /\ h_c' = h_c + 1
    /\ h_pc' = IF h_c + 1 < 3 THEN "loop" ELSE "done"
    /\ UNCHANGED <<h_image, h_size, circular>>
    /\ UNCHANGED <<distVars, flatVars, radVars, normVars, procVars>>

HistNext == HistChannel

SpecHist == HistInit /\ [][HistNext]_vars

(***************************************************************************)
(* Machine 5: the normalisation loop of calc_rad_profile (lines 292-297),  *)
(* one channel a step.  The values are exact fractions <<num, den>> in     *)
(* lowest terms with a positive denominator.                               *)
(***************************************************************************)
RECURSIVE GCD(_, _)
GCD(a, b) == IF b = 0 THEN a ELSE GCD(b, a % b)

Frac(n, d) ==
    LET g == GCD(Abs(n), Abs(d))
        s == IF d < 0 THEN -1 ELSE 1
    IN  <<(s * n) \div g, (s * d) \div g>>

FracDiv(a, b) == Frac(a[1] * b[2], a[2] * b[1])

FracLeq(a, b) == a[1] * b[2] <= b[1] * a[2]

\* np.max(arr[:, col]), col in 1..4 being the columns 0..3 of the code
RECURSIVE MaxFrom(_, _, _, _)
MaxFrom(arr, col, n, best) ==
    IF n > Len(arr) THEN best
    ELSE MaxFrom(arr, col, n + 1,
                 IF FracLeq(arr[n][col], best) THEN best ELSE arr[n][col])

ColMax(arr, col) == MaxFrom(arr, col, 2, arr[1][col])

\* arr[:, col] = arr[:, col] / m
DivideColumn(arr, col, m) ==
    [n \in 1..Len(arr) |-> [arr[n] EXCEPT ![col] = FracDiv(arr[n][col], m)]]

\* the loop body with the smoothed column divided first
NormalizeChannel_smoothed_first(raw, prof, cut, sm, c) ==
    LET sm1   == DivideColumn(sm, c + 2, ColMax(sm, c + 2))
        raw1  == DivideColumn(raw, c + 2, ColMax(sm1, c + 2))
        prof1 == DivideColumn(prof, c + 2, ColMax(sm1, c + 2))
        cut1  == DivideColumn(cut, c + 2, ColMax(sm1, c + 2))
    IN  <<raw1, prof1, cut1, sm1>>

\* lines 294-297: each line takes np.max of the smoothed column as it is then
NormalizeChannel(raw, prof, cut, sm, c) ==
    LET raw1  == DivideColumn(raw, c + 2, ColMax(sm, c + 2))
        prof1 == DivideColumn(prof, c + 2, ColMax(sm, c + 2))
        cut1  == DivideColumn(cut, c + 2, ColMax(sm, c + 2))
        sm1   == DivideColumn(sm, c + 2, ColMax(sm, c + 2))
    IN  <<raw1, prof1, cut1, sm1>>

\* the smoothed columns of the inputs: a base column, turned and scaled per
\* channel, with a positive maximum
NormColumns ==
    {s \in [1..NormRows -> -1..MaxNormVal] : \E n \in 1..NormRows : s[n] > 0}

SmoothedOf(s) ==
    [n \in 1..NormRows |->
        <<Frac(n - 1, NormRows)>> \o
        [c \in 1..3 |-> Frac((c + 1) * s[((n + c) % NormRows) + 1], 2)]]

\* the other arrays hold positive statistics of positive samples
ProfileOf(v, k) ==
    [n \in 1..NormRows |->
        <<Frac(n, NormRows + 1)>> \o [c \in 1..3 |-> Frac(v + n + k * c, k + 1)]]

NormInit ==
    /\ DistIdle
    /\ FlatIdle
    /\ RadIdle
    /\ HistIdle
    /\ ProcIdle
    /\ \E s \in NormColumns, v \in 1..MaxNormVal :
        /\ rad_profile_smoothed = SmoothedOf(s)
        /\ rad_profile_raw_mean = ProfileOf(v, 0)
        /\ n_rad_profile = ProfileOf(v, 1)
        /\ rad_profile_cut = ProfileOf(v, 2)
    /\ n_c = 0
    /\ n_before = <<rad_profile_raw_mean, n_rad_profile, rad_profile_cut,
                    rad_profile_smoothed>>
    /\ n_pc = "loop"

\* lines 293-297: the body of the loop for channel c
NormChannel ==
    /\ n_pc = "loop"
    /\ LET after == NormalizeChannel(rad_profile_raw_mean, n_rad_profile,
                                     rad_profile_cut, rad_profile_smoothed, n_c)
       IN  /\ rad_profile_raw_mean' = after[1]
           /\ n_rad_profile' = after[2]
           /\ rad_profile_cut' = after[3]
           /\ rad_profile_smoothed' = after[4]
    /\ n_c' = n_c + 1
    /\ n_pc' = IF n_c + 1 < 3 THEN "loop" ELSE "done"
    /\ UNCHANGED n_before
    /\ UNCHANGED <<distVars, flatVars, radVars, histVars, procVars>>

NormNext == NormChannel

SpecNorm == NormInit /\ [][NormNext]_vars

(***************************************************************************)
(* Machine 6: the batch driver.  Every Start click starts a thread that    *)
(* runs process(); the Stop button runs stop() in the GUI thread.  The     *)
(* threads interleave between statements.                                  *)
(***************************************************************************)
Threads == 1..NumThreads

\* the check boxes: the defaults of the config file and other settings
OptionSets ==
    { [write_pickle |-> TRUE,  export_corr_input |-> TRUE,  gradient |-> TRUE,
       histogram |-> FALSE, radprof |-> TRUE,  synthflat |-> TRUE,
       circular_hist |-> TRUE],
      [write_pickle |-> FALSE, export_corr_input |-> FALSE, gradient |-> FALSE,
       histogram |-> FALSE, radprof |-> TRUE,  synthflat |-> TRUE,
       circular_hist |-> TRUE],
      [write_pickle |-> FALSE, export_corr_input |-> FALSE, gradient |-> FALSE,
       histogram |-> TRUE,  radprof |-> TRUE,  synthflat |-> FALSE,
       circular_hist |-> TRUE],
      [write_pickle |-> FALSE, export_corr_input |-> TRUE,  gradient |-> TRUE,
       histogram |-> FALSE, radprof |-> FALSE, synthflat |-> FALSE,
       circular_hist |-> TRUE],
      [write_pickle |-> FALSE, export_corr_input |-> FALSE, gradient |-> FALSE,
       histogram |-> FALSE, radprof |-> FALSE, synthflat |-> FALSE,
       circular_hist |-> TRUE] }

\* the status each stage displays
StatusOf ==
    [load      |-> "load...",
     pickle    |-> "save pickle file...",
     original  |-> "write original tif...",
     gradient  |-> "calc gradient...",
     gradcorr  |-> "write gradcorr tif...",
     bias      |-> "subtract bias...",
     histogram |-> "calc histogram...",
     radprof   |-> "calc radial profile...",
     synthflat |-> "calc synthetic flat...",
     writeflat |-> "write synthflat tif...",
     flatcorr  |-> "export flat-corrected..."]

\* the condition under which a stage runs
Enabled(opt, st) ==
    CASE st = "pickle"    -> opt.write_pickle
      [] st = "original"  -> opt.export_corr_input
      [] st = "gradient"  -> opt.gradient
      [] st = "gradcorr"  -> opt.export_corr_input
      [] st = "histogram" -> opt.histogram
      [] st = "radprof"   -> opt.radprof
      [] st = "synthflat" -> opt.synthflat
      [] st = "flatcorr"  -> opt.export_corr_input
      [] OTHER            -> TRUE

\* the stages that call dist_from_center (lines 150, 177-182, 325-345)
Fills(opt, st) ==
    \/ st \in {"radprof", "synthflat"}
    \/ st = "histogram" /\ opt.circular_hist

\* line 949 reads radprof4, which only line 934 binds
Bound(st, radprof4) == st = "synthflat" => radprof4 # 0

\* the stage tested after a stage has run
After ==
    [load      |-> "pickle",    pickle    |-> "original",  original  |-> "gradient",
     gradient  |-> "gradcorr",  gradcorr  |-> "bias",      bias      |-> "histogram",
     histogram |-> "radprof",   radprof   |-> "synthflat", synthflat |-> "writeflat",
     writeflat |-> "flatcorr",  flatcorr  |-> "finished"]

\* the stage tested after a stage has been skipped: the blocks of the
\* gradient and of the synthetic flat are skipped as a whole
Skipped ==
    [After EXCEPT !.gradient = "bias", !.synthflat = "finished"]

\* every stage but the last is followed by "if self.check_stop(): return"
HasCheck(st) == st # "flatcorr"

\* the position in front of a stage: load, bias and writeflat have no "if"
Goto(st) ==
    IF st = "finished" THEN "finish"
    ELSE IF st \in {"load", "bias", "writeflat"} THEN "stage"
    ELSE "select"

\* the handler that goes on with the next file
ExceptTarget_next_file(counter, files) ==
    IF counter < files THEN "loop" ELSE "finally"

\* lines 970-979: the handler re-raises, only the finally block is left
ExceptTarget(counter, files) == "finally"

\* the positions at which the thread's batch is running
RunningPcs ==
    {"label_running", "reset_stop", "files", "loop", "select", "stage", "check",
     "finish"}

ProcInit ==
    /\ DistIdle
    /\ FlatIdle
    /\ RadIdle
    /\ HistIdle
    /\ NormIdle
    /\ running = FALSE
    /\ asked_stop = FALSE
    /\ label_status = "ready"
    /\ loaded_files \in 0..MaxFiles
    /\ options \in OptionSets
    /\ p_pc = [t \in Threads |-> "none"]
    /\ p_counter = [t \in Threads |-> 0]
    /\ p_stage = [t \in Threads |-> "load"]
    /\ s_pc = "idle"
    /\ p_outcome = [t \in Threads |-> "none"]
    /\ p_stop_seen = [t \in Threads |-> FALSE]
    /\ p_raised = [t \in Threads |-> 0]
    /\ cache_used = FALSE
    /\ p_radprof = [t \in Threads |-> 0]
    /\ p_stop_stage = [t \in Threads |-> <<>>]

otherVars == <<distVars, flatVars, radVars, histVars, normVars>>

\* line 656: a click on Start starts a thread on process()
Start(t) ==
    /\ p_pc[t] = "none"
    /\ \A u \in Threads : u < t => p_pc[u] # "none"
    /\ p_pc' = [p_pc EXCEPT ![t] = "guard"]
    /\ UNCHANGED <<running, asked_stop, label_status, loaded_files, options,
                   p_counter, p_stage, s_pc, p_outcome, p_stop_seen, p_raised>>
    /\ UNCHANGED <<cache_used, p_radprof, p_stop_stage>>
    /\ UNCHANGED otherVars

\* lines 857-859: if self.running: return
Guard(t) ==
    /\ p_pc[t] = "guard"
    /\ IF running
       THEN /\ p_pc' = [p_pc EXCEPT ![t] = "ended"]
            /\ p_outcome' = [p_outcome EXCEPT ![t] = "busy"]
       ELSE /\ p_pc' = [p_pc EXCEPT ![t] = "setrun"]
            /\ UNCHANGED p_outcome
    /\ UNCHANGED <<running, asked_stop, label_status, loaded_files, options,
                   p_counter, p_stage, s_pc, p_stop_seen, p_raised>>
    /\ UNCHANGED <<cache_used, p_radprof, p_stop_stage>>
    /\ UNCHANGED otherVars

\* line 860: self.running = True
SetRunning(t) ==
    /\ p_pc[t] = "setrun"
    /\ running' = TRUE
    /\ p_pc' = [p_pc EXCEPT ![t] = "label_running"]
    /\ UNCHANGED <<asked_stop, label_status, loaded_files, options, p_counter,
                   p_stage, s_pc, p_outcome, p_stop_seen, p_raised>>
    /\ UNCHANGED <<cache_used, p_radprof, p_stop_stage>>
    /\ UNCHANGED otherVars

\* line 861: self.update_labels(status="running...")
LabelRunning(t) ==
    /\ p_pc[t] = "label_running"
    /\ label_status' = "running..."
    /\ p_pc' = [p_pc EXCEPT ![t] = "reset_stop"]
    /\ UNCHANGED <<running, asked_stop, loaded_files, options, p_counter,
                   p_stage, s_pc, p_outcome, p_stop_seen, p_raised>>
    /\ UNCHANGED <<cache_used, p_radprof, p_stop_stage>>
    /\ UNCHANGED otherVars

\* line 862: self.asked_stop = False
ResetStop(t) ==
    /\ p_pc[t] = "reset_stop"
    /\ asked_stop' = FALSE
    /\ p_pc' = [p_pc EXCEPT ![t] = "files"]
    /\ UNCHANGED <<running, label_status, loaded_files, options, p_counter,
                   p_stage, s_pc, p_outcome, p_stop_seen, p_raised>>
    /\ UNCHANGED <<cache_used, p_radprof, p_stop_stage>>
    /\ UNCHANGED otherVars

\* lines 867-868: the safety check
Files(t) ==
    /\ p_pc[t] = "files"
    /\ IF loaded_files = 0
       THEN /\ running' = FALSE
            /\ p_pc' = [p_pc EXCEPT ![t] = "nofile"]
       ELSE /\ p_pc' = [p_pc EXCEPT ![t] = "loop"]
            /\ UNCHANGED running
    /\ UNCHANGED <<asked_stop, label_status, loaded_files, options, p_counter,
                   p_stage, s_pc, p_outcome, p_stop_seen, p_raised>>
    /\ UNCHANGED <<cache_used, p_radprof, p_stop_stage>>
    /\ UNCHANGED otherVars

\* lines 869-870: self.update_labels(status="no file chosen."); return
NoFile(t) ==
    /\ p_pc[t] = "nofile"
    /\ label_status' = "no file chosen."
    /\ p_pc' = [p_pc EXCEPT ![t] = "finally"]
    /\ p_outcome' = [p_outcome EXCEPT ![t] = "nofile"]
    /\ UNCHANGED <<running, asked_stop, loaded_files, options, p_counter,
                   p_stage, s_pc, p_stop_seen, p_raised>>
    /\ UNCHANGED <<cache_used, p_radprof, p_stop_stage>>
    /\ UNCHANGED otherVars

\* lines 878-887: the next file, or the end of the loop
Loop(t) ==
    /\ p_pc[t] = "loop"
    /\ IF p_counter[t] < loaded_files
       THEN /\ p_counter' = [p_counter EXCEPT ![t] = @ + 1]
            /\ p_stage' = [p_stage EXCEPT ![t] = "load"]
            /\ p_pc' = [p_pc EXCEPT ![t] = Goto("load")]
            /\ UNCHANGED p_outcome
       ELSE /\ p_pc' = [p_pc EXCEPT ![t] = "finally"]
            /\ p_outcome' = [p_outcome EXCEPT ![t] = "finished"]
            /\ UNCHANGED <<p_counter, p_stage>>
    /\ UNCHANGED <<running, asked_stop, label_status, loaded_files, options,
                   s_pc, p_stop_seen, p_raised>>
    /\ UNCHANGED <<cache_used, p_radprof, p_stop_stage>>
    /\ UNCHANGED otherVars

\* the "if" in front of a stage (lines 896, 902, 908, 914, 925, 932, 945, 960)
Select(t) ==
    /\ p_pc[t] = "select"
    /\ IF Enabled(options, p_stage[t])
       THEN /\ p_pc' = [p_pc EXCEPT ![t] = "stage"]
            /\ UNCHANGED p_stage
       ELSE /\ p_stage' = [p_stage EXCEPT ![t] = Skipped[@]]
            /\ p_pc' = [p_pc EXCEPT ![t] = Goto(Skipped[p_stage[t]])]
    /\ UNCHANGED <<running, asked_stop, label_status, loaded_files, options,
                   p_counter, s_pc, p_outcome, p_stop_seen, p_raised>>
    /\ UNCHANGED <<cache_used, p_radprof, p_stop_stage>>
    /\ UNCHANGED otherVars

\* a stage: update_labels(status=...) and the work, which returns or raises;
\* line 949 raises when radprof4 is not bound
Stage(t) ==
    /\ p_pc[t] = "stage"
    /\ label_status' = StatusOf[p_stage[t]]
    /\ \/ /\ HasCheck(p_stage[t])
          /\ Bound(p_stage[t], p_radprof[t])
          /\ p_pc' = [p_pc EXCEPT ![t] = "check"]
          /\ p_radprof' = IF p_stage[t] = "radprof"
                          THEN [p_radprof EXCEPT ![t] = p_counter[t]]
                          ELSE p_radprof
          /\ UNCHANGED <<p_stage, p_raised>>
       \/ /\ ~HasCheck(p_stage[t])
          /\ p_stage' = [p_stage EXCEPT ![t] = After[@]]
          /\ p_pc' = [p_pc EXCEPT ![t] = Goto(After[p_stage[t]])]
          /\ UNCHANGED <<p_raised, p_radprof>>
       \/ /\ p_raised' = [p_raised EXCEPT ![t] = p_counter[t]]
          /\ p_pc' = [p_pc EXCEPT ![t] = "except"]
          /\ UNCHANGED <<p_stage, p_radprof>>
    /\ cache_used' = (\/ cache_used
                      \/ /\ Fills(options, p_stage[t])
                         /\ Bound(p_stage[t], p_radprof[t]))
    /\ UNCHANGED <<running, asked_stop, loaded_files, options, p_counter, s_pc,
                   p_outcome, p_stop_seen, p_stop_stage>>
    /\ UNCHANGED otherVars

\* line 696: if self.asked_stop
Check(t) ==
    /\ p_pc[t] = "check"
    /\ IF asked_stop
       THEN /\ p_pc' = [p_pc EXCEPT ![t] = "interrupt"]
            /\ UNCHANGED p_stage
       ELSE /\ p_stage' = [p_stage EXCEPT ![t] = After[@]]
            /\ p_pc' = [p_pc EXCEPT ![t] = Goto(After[p_stage[t]])]
    /\ UNCHANGED <<running, asked_stop, label_status, loaded_files, options,
                   p_counter, s_pc, p_outcome, p_stop_seen, p_raised>>
    /\ UNCHANGED <<cache_used, p_radprof, p_stop_stage>>
    /\ UNCHANGED otherVars

\* lines 697-698: self.running = False; update_labels(status="interrupted")
Interrupt(t) ==
    /\ p_pc[t] = "interrupt"
    /\ running' = FALSE
    /\ label_status' = "interrupted"
    /\ p_pc' = [p_pc EXCEPT ![t] = "interrupt_reset"]
    /\ UNCHANGED <<asked_stop, loaded_files, options, p_counter, p_stage, s_pc,
                   p_outcome, p_stop_seen, p_raised>>
    /\ UNCHANGED <<cache_used, p_radprof, p_stop_stage>>
    /\ UNCHANGED otherVars

\* lines 700-701 and the return of process(): self.asked_stop = False
InterruptReset(t) ==
    /\ p_pc[t] = "interrupt_reset"
    /\ asked_stop' = FALSE
    /\ p_pc' = [p_pc EXCEPT ![t] = "finally"]
    /\ p_outcome' = [p_outcome EXCEPT ![t] = "interrupted"]
    /\ UNCHANGED <<running, label_status, loaded_files, options, p_counter,
                   p_stage, s_pc, p_stop_seen, p_raised>>
    /\ UNCHANGED <<cache_used, p_radprof, p_stop_stage>>
    /\ UNCHANGED otherVars

\* lines 965-968: self.update_labels(status="finished."); cache_clear()
Finish(t) ==
    /\ p_pc[t] = "finish"
    /\ label_status' = "finished."
    /\ p_pc' = [p_pc EXCEPT ![t] = "loop"]
    /\ UNCHANGED <<running, asked_stop, loaded_files, options, p_counter,
                   p_stage, s_pc, p_outcome, p_stop_seen, p_raised>>
    /\ cache_used' = FALSE
    /\ UNCHANGED <<p_radprof, p_stop_stage>>
    /\ UNCHANGED otherVars

\* lines 970-975: the handler
Except(t) ==
    /\ p_pc[t] = "except"
    /\ label_status' = "unknown error..."
    /\ p_pc' = [p_pc EXCEPT ![t] = ExceptTarget(p_counter[t], loaded_files)]
    /\ p_outcome' = [p_outcome EXCEPT ![t] = "error"]
    /\ UNCHANGED <<running, asked_stop, loaded_files, options, p_counter,
                   p_stage, s_pc, p_stop_seen, p_raised>>
    /\ UNCHANGED <<cache_used, p_radprof, p_stop_stage>>
    /\ UNCHANGED otherVars

\* lines 977-980: self.running = False; the thread and its locals end
Finally(t) ==
    /\ p_pc[t] = "finally"
    /\ running' = FALSE
    /\ p_pc' = [p_pc EXCEPT ![t] = "ended"]
    /\ p_counter' = [p_counter EXCEPT ![t] = 0]
    /\ p_stage' = [p_stage EXCEPT ![t] = "load"]
    /\ p_stop_seen' = [p_stop_seen EXCEPT ![t] = FALSE]
    /\ p_raised' = [p_raised EXCEPT ![t] = 0]
    /\ UNCHANGED <<asked_stop, label_status, loaded_files, options, s_pc,
                   p_outcome>>
    /\ p_stop_stage' = [p_stop_stage EXCEPT ![t] = <<>>]
    /\ p_radprof' = [p_radprof EXCEPT ![t] = 0]
    /\ UNCHANGED cache_used
    /\ UNCHANGED otherVars

\* lines 690-692: self.asked_stop = True
StopSet ==
    /\ s_pc = "idle"
    /\ asked_stop' = TRUE
    /\ s_pc' = "label"
    /\ p_stop_seen' = [t \in Threads |-> p_stop_seen[t] \/ p_pc[t] \in RunningPcs]
    /\ UNCHANGED <<running, label_status, loaded_files, options, p_pc,
                   p_counter, p_stage, p_outcome, p_raised>>
    /\ UNCHANGED <<cache_used, p_radprof, p_stop_stage>>
    /\ UNCHANGED otherVars

\* line 693: self.update_labels(status="stopping...")
StopLabel ==
    /\ s_pc = "label"
    /\ label_status' = "stopping..."
    /\ s_pc' = "idle"
    /\ UNCHANGED <<running, asked_stop, loaded_files, options, p_pc, p_counter,
                   p_stage, p_outcome, p_stop_seen, p_raised>>
    /\ UNCHANGED <<cache_used, p_radprof, p_stop_stage>>
    /\ UNCHANGED otherVars

ProcNext ==
    \/ \E t \in Threads :
        \/ Start(t)
        \/ Guard(t)
        \/ SetRunning(t)
        \/ LabelRunning(t)
        \/ ResetStop(t)
        \/ Files(t)
        \/ NoFile(t)
        \/ Loop(t)
        \/ Select(t)
        \/ Stage(t)
        \/ Check(t)
        \/ Interrupt(t)
        \/ InterruptReset(t)
        \/ Finish(t)
        \/ Except(t)
        \/ Finally(t)
    \/ StopSet
    \/ StopLabel

SpecProc == ProcInit /\ [][ProcNext]_vars

(***************************************************************************)
(* One batch under observation: a single Start, the Stop button and the    *)
(* two check boxes of the Options menu, which stay active while the batch  *)
(* runs.                                                                   *)
(***************************************************************************)

\* lines 690-692, with the stage in execution recorded
StopAtStage(t) ==
    /\ s_pc = "idle"
    /\ p_pc[t] = "stage"
    /\ p_stop_stage[t] = <<>>
    /\ asked_stop' = TRUE
    /\ s_pc' = "label"
    /\ p_stop_seen' = [u \in Threads |-> p_stop_seen[u] \/ p_pc[u] \in RunningPcs]
    /\ p_stop_stage' = [p_stop_stage EXCEPT ![t] = <<p_counter[t], p_stage[t]>>]
    /\ UNCHANGED <<running, label_status, loaded_files, options, p_pc,
                   p_counter, p_stage, p_outcome, p_raised>>
    /\ UNCHANGED <<cache_used, p_radprof>>
    /\ UNCHANGED otherVars

\* lines 611, 782-784: the click flips opt_radprof, then toggle_radprof runs
ToggleRadprof ==
    /\ options' = [options EXCEPT !.radprof = ~@,
                                  !.synthflat = IF options.radprof THEN FALSE ELSE @]
    /\ UNCHANGED <<running, asked_stop, label_status, loaded_files, p_pc,
                   p_counter, p_stage, s_pc, p_outcome, p_stop_seen, p_raised>>
    /\ UNCHANGED <<cache_used, p_radprof, p_stop_stage>>
    /\ UNCHANGED otherVars

\* lines 612, 786-788: the click flips opt_synthflat, then toggle_synthflat runs
ToggleSynthflat ==
    /\ options' = [options EXCEPT !.synthflat = ~@,
                                  !.radprof = IF options.synthflat THEN @ ELSE TRUE]
    /\ UNCHANGED <<running, asked_stop, label_status, loaded_files, p_pc,
                   p_counter, p_stage, s_pc, p_outcome, p_stop_seen, p_raised>>
    /\ UNCHANGED <<cache_used, p_radprof, p_stop_stage>>
    /\ UNCHANGED otherVars

BatchNext ==
    \/ \E t \in {1} :
        \/ Start(t)
        \/ Guard(t)
        \/ SetRunning(t)
        \/ LabelRunning(t)
        \/ ResetStop(t)
        \/ Files(t)
        \/ NoFile(t)
        \/ Loop(t)
        \/ Select(t)
        \/ Stage(t)
        \/ Check(t)
        \/ Interrupt(t)
        \/ InterruptReset(t)
        \/ Finish(t)
        \/ Except(t)
        \/ Finally(t)
        \/ StopAtStage(t)
    \/ StopSet
    \/ StopLabel
    \/ ToggleRadprof
    \/ ToggleSynthflat

SpecBatch == ProcInit /\ [][BatchNext]_vars

(***************************************************************************)
(* Claims about dist_from_center / cached_dist.                            *)
(***************************************************************************)

\* the exact offsets of a call, doubled: <<|2i - height|, |2j - width|>>
Offsets2(call) == <<Abs(2 * call.i - d_size[1]), Abs(2 * call.j - d_size[2])>>

Permuted(a, b) == (a[1] = b[1] /\ a[2] = b[2]) \/ (a[1] = b[2] /\ a[2] = b[1])

\* C8: two calls for pixels whose offset pairs (|i - height/2|, |j - width/2|)
\* are permutations of each other return the same value and use the same memo
\* key (dx, dy), which has dx <= dy.
C8_Symmetric ==
    (d_prev # None /\ d_last # None /\ Permuted(Offsets2(d_prev), Offsets2(d_last))) =>
        /\ d_prev.val = d_last.val
        /\ d_prev.key = d_last.key
        /\ d_last.key[1] <= d_last.key[2]

\* two calls whose offsets are swapped, not equal, the second one a cache hit
C8_Witness ==
    /\ d_prev # None
    /\ d_last # None
    /\ Offsets2(d_prev)[1] = Offsets2(d_last)[2]
    /\ Offsets2(d_prev)[2] = Offsets2(d_last)[1]
    /\ Offsets2(d_prev)[1] # Offsets2(d_prev)[2]
    /\ d_prev.val = d_last.val

\* C9 as stated: for every size, even or odd, the square of the value is
\* (i - height/2)^2 + (j - width/2)^2 (both sides times 4).
C9_Euclidean ==
    d_last # None =>
        4 * d_last.val.root = Offsets2(d_last)[1] * Offsets2(d_last)[1]
                              + Offsets2(d_last)[2] * Offsets2(d_last)[2]

\* C9 amended: the value is the root of dx^2 + dy^2 for the offsets truncated
\* to integers, dx = int(|i - height/2|) and dy = int(|j - width/2|); for an
\* even height and width that is the Euclidean distance to the centre.
C9_TruncatedEuclidean ==
    d_last # None =>
        LET dx == Offsets2(d_last)[1] \div 2
            dy == Offsets2(d_last)[2] \div 2
        IN  /\ d_last.val.root = dx * dx + dy * dy
            /\ (d_size[1] % 2 = 0 /\ d_size[2] % 2 = 0) => C9_Euclidean

\* a call for an image of odd height whose value is not the exact distance
C9_Witness ==
    /\ d_last # None
    /\ d_size[1] % 2 = 1
    /\ d_last.key \in DOMAIN cache
    /\ ~C9_Euclidean

(***************************************************************************)
(* Claims about the accumulation loop of calc_rad_profile.                 *)
(***************************************************************************)

\* the pixels that pass the positivity, edge-margin and stride filters
AcceptedPixels ==
    {px \in Pixels(ImageHeight, ImageWidth) :
        /\ Positive(image, px[1], px[2])
        /\ EdgeOk(px[1], px[2], ImageHeight, ImageWidth)
        /\ StrideOk(px[1], px[2], resolution_factor)}

CountIn(q, v) == Cardinality({n \in 1..Len(q) : q[n] = v})

CountOf(S, c, v) == Cardinality({px \in S : PixelValue(image, px[1], px[2], c) = v})

RECURSIVE TotalLen(_, _)
TotalLen(order, c) ==
    IF order = <<>> THEN 0
    ELSE Len(rad_counts[Head(order)][c]) + TotalLen(Tail(order), c)

\* C4: after the accumulation loop a radius has a bin iff an accepted pixel has
\* that integer radius; the R bin and the B bin of a radius hold exactly the R
\* and B sample of each accepted pixel of that radius, the green bin exactly
\* its G1 and its G2 sample; over all radii the R and B bins hold one sample
\* per accepted pixel and the green bins two.
C4_BinsExact ==
    r_pc \in {"stats", "safety", "cut", "smooth", "done"} =>
        \A acc \in {{px : px \in AcceptedPixels}} :
        \A radOf \in {[px \in acc |-> RadOf(px[1], px[2], ImageHeight, ImageWidth)]} :
        \A rads \in {{radOf[px] : px \in acc}} :
            /\ DOMAIN rad_counts = rads
            /\ {radii[n] : n \in 1..Len(radii)} = rads
            /\ Len(radii) = Cardinality(rads)
            /\ \A rad \in rads :
                 \A at \in {{px : px \in {q \in acc : radOf[q] = rad}}} :
                 \A v \in 0..4 :
                     /\ CountIn(rad_counts[rad][1], v) = CountOf(at, 0, v)
                     /\ CountIn(rad_counts[rad][2], v) =
                          CountOf(at, 1, v) + CountOf(at, 2, v)
                     /\ CountIn(rad_counts[rad][3], v) = CountOf(at, 3, v)
            /\ TotalLen(radii, 1) = Cardinality(acc)
            /\ TotalLen(radii, 2) = 2 * Cardinality(acc)
            /\ TotalLen(radii, 3) = Cardinality(acc)

\* the loop has ended on an image with accepted pixels at several radii and
\* with pixels the positivity and the stride filter rejected
C4_Witness ==
    /\ r_pc = "stats"
    /\ image.bad = "rows"
    /\ resolution_factor = 2
    /\ Len(radii) >= 3
    /\ Len(rad_counts[radii[1]][2]) = 2 * Len(rad_counts[radii[1]][1])

AllPixelsFail ==
    \A px \in Pixels(ImageHeight, ImageWidth) : ~Positive(image, px[1], px[2])

\* C5: when every pixel fails the positivity check, no radius bin is created,
\* the condition is reported and calc_rad_profile ends by raising; it does not
\* return a profile.
C5_AllInvalidRaises ==
    (r_pc = "done" /\ AllPixelsFail) =>
        /\ rad_counts = EmptyCache
        /\ r_profile = <<>>
        /\ r_reported
        /\ r_outcome = "raised"

\* calc_rad_profile has ended on an image without a valid pixel
C5_Witness ==
    /\ r_pc = "done"
    /\ image.bad = "all"
    /\ AllPixelsFail
    /\ r_outcome = "raised"

\* C15: with too few rows left (but at least one; no row at all is the case
\* of C5) the condition is only reported: calc_rad_profile raises nothing and
\* returns its four profiles.
C15_ReportOnly ==
    (r_pc = "done" /\ r_reported /\ r_profile # <<>>) => r_outcome = "smoothed"

\* C16: with extrapolate_max, m the largest of the three peak indices and n
\* the number of cut rows, the cut profile is left as it is when m exceeds
\* n / 2, and is otherwise exactly its rows from index m on, in order.
C16_PeakSkip ==
    (r_pc = "done" /\ extrapolate_max /\ r_maxind # <<>>) =>
        \A old \in {EdgeCut(r_profile)} :
        \A m \in {n \in 0..(Len(old) - 1) :
                    /\ \E c \in 1..3 : r_maxind[c] = n
                    /\ \A c \in 1..3 : r_maxind[c] <= n} :
            IF 2 * m > Len(old)
            THEN r_cut = old
            ELSE /\ Len(r_cut) = Len(old) - m
                 /\ \A k \in 1..Len(r_cut) : r_cut[k] = old[m + k]
                 /\ r_cut[1] = old[m + 1]

\* the peak skip has cut rows away: the largest peak index is not the first
\* row, belongs to one channel only and does not exceed half the rows
C16_Witness ==
    /\ r_pc = "done"
    /\ extrapolate_max
    /\ r_maxind # <<>>
    /\ r_maxind[1] > 0
    /\ r_maxind[2] = 0
    /\ r_maxind[3] = 0
    /\ Len(r_cut) = Len(EdgeCut(r_profile)) - r_maxind[1]
    /\ Len(r_cut) < Len(EdgeCut(r_profile))

\* C17: the cut profile is, in unchanged order, the rows of the profile that
\* are not dropped, and a row is dropped if and only if its radius is below
\* IGNORE_RADII or above maxrad - IGNORE_RADII (normalised: divided by
\* maxrad); a row at exactly one of the two radii is kept.
KeptByEdgeCut(row) ==
    ~(row.rad < IGNORE_RADII \/ row.rad > maxrad - IGNORE_RADII)

C17_EdgeCut ==
    r_pc = "smooth" => r_cut = SelectSeq(r_profile, KeptByEdgeCut)

(***************************************************************************)
(* Claims about calc_synthetic_flat.                                       *)
(***************************************************************************)

\* C3: once a pixel of the output has been written with a non-zero value, no
\* later write of the (di, dj, k) loop changes it: every pixel that has
\* received a non-zero value still holds the first such value.
C3_FirstWriterWins ==
    f_pc \in {"loop", "convert", "done"} =>
        \A px \in DOMAIN im_syn :
            ~IsZero(first_val[px]) => im_syn[px] = first_val[px]

\* C7: the returned image has exactly the requested shape (height, width), as
\* given, whether height <= width or height > width.
C7_ShapeAsRequested ==
    f_pc = "done" => FlatShape = tif_size

\* C11: for the constant profile, once the write loop is over every pixel is
\* exactly 1 or exactly 0, and it is 0 if and only if no write targeted it,
\* in grey mode and in Bayer mode.
C11_ConstantProfile ==
    (rad_profile = "const" /\ f_pc \in {"convert", "done"}) =>
        \A px \in DOMAIN im_syn :
            /\ im_syn[px] \in {<<1, 1>>, Zero}
            /\ IsZero(im_syn[px]) <=> px \notin f_written

\* the constant profile has been written, in Bayer mode, on an image with an
\* odd side: written and untouched pixels both occur
C11_Witness ==
    /\ rad_profile = "const"
    /\ f_pc = "done"
    /\ ~grey_flat
    /\ \E px \in DOMAIN im_syn : px \in f_written /\ im_syn[px] = <<1, 1>>
    /\ \E px \in DOMAIN im_syn : px \notin f_written

\* the profile column of the Bayer pattern at a pixel: R, G, G, B
BayerColumn(px) ==
    CASE px[1] % 2 = 0 /\ px[2] % 2 = 0 -> 1
      [] px[1] % 2 = 0 /\ px[2] % 2 = 1 -> 2
      [] px[1] % 2 = 1 /\ px[2] % 2 = 0 -> 2
      [] px[1] % 2 = 1 /\ px[2] % 2 = 1 -> 3

\* C12: every write of the loop, to each of its four mirrored targets, stores
\* the profile row of the step in the column fixed by the target's own parity
\* (R, G, G, B); in grey mode it is the green column for every pixel.
C12_ParityRule ==
    [][im_syn' # im_syn =>
        LET ts == Targets(f_di, f_dj, f_k)
            value(px) == Normalized(rad_profile, r_index * f_k,
                                    IF grey_flat THEN 2 ELSE BayerColumn(px))
        IN  /\ \A n \in 1..4 : im_syn'[ts[n]] = value(ts[n])
            /\ \A px \in DOMAIN im_syn :
                  im_syn'[px] # im_syn[px] => im_syn'[px] = value(px)]_vars

\* in Bayer mode pixels of all four parities hold values of their columns
C12_Witness ==
    /\ ~grey_flat
    /\ rad_profile = "ramp"
    /\ f_pc = "done"
    /\ \E px \in DOMAIN im_syn :
          BayerColumn(px) = 1 /\ im_syn[px][2] = ProfileMax("ramp", 1)
    /\ \E px \in DOMAIN im_syn :
          BayerColumn(px) = 3 /\ im_syn[px][2] = ProfileMax("ramp", 3)
    /\ \E px \in DOMAIN im_syn :
          /\ px[1] % 2 = 1
          /\ px[2] % 2 = 0
          /\ im_syn[px][2] = ProfileMax("ramp", 2)
    /\ \E px \in DOMAIN im_syn :
          /\ px[1] % 2 = 0
          /\ px[2] % 2 = 1
          /\ im_syn[px][2] = ProfileMax("ramp", 2)

\* the sizes and profiles of C20: both sides even and at least 4, all profile
\* values strictly positive
EvenSize ==
    /\ tif_size[1] % 2 = 0
    /\ tif_size[2] % 2 = 0
    /\ tif_size[1] >= 4
    /\ tif_size[2] >= 4

PositiveProfile == rad_profile \in {"const", "ramp"}

\* C20: for even sides of at least 4 and a strictly positive profile, after
\* the write loop every pixel has been written and is non-zero, and the zero
\* count printed before the integer conversion is 0, in both modes.
C20_FullCoverage ==
    (EvenSize /\ PositiveProfile) =>
        /\ f_pc \in {"convert", "done"} =>
              \A px \in DOMAIN im_syn : px \in f_written /\ ~IsZero(im_syn[px])
        /\ f_pc = "done" => f_zeros = 0

\* a finished Bayer flat of even sides, wider than high, from the ramp profile
C20_Witness ==
    /\ EvenSize
    /\ tif_size[1] < tif_size[2]
    /\ rad_profile = "ramp"
    /\ ~grey_flat
    /\ f_pc = "done"
    /\ Cardinality(f_written) = tif_size[1] * tif_size[2]

\* C21: for every target size, even or odd, every profile row index
\* r_index * k passed to write_flat_pixel lies in 0..RADIAL_RESOLUTION - 1 and
\* every pixel coordinate passed lies inside the output array: no write is
\* out of bounds or wraps to a negative index, and none raises.
C21_WritesInBounds ==
    /\ f_pc # "raised"
    /\ f_last # <<>> =>
          /\ f_last[1] \in 0..(RADIAL_RESOLUTION - 1)
          /\ \A n \in 1..4 :
                /\ f_last[2][n][1] \in 0..(Height - 1)
                /\ f_last[2][n][2] \in 0..(Width - 1)

\* a multiple k >= 2 with a positive row index has been written on an image
\* with odd sides, and a target lay in the first row
C21_Witness ==
    /\ tif_size[1] % 2 = 1
    /\ tif_size[2] % 2 = 1
    /\ f_pc \in {"loop", "convert"}
    /\ f_last # <<>>
    /\ f_last[3] >= 2
    /\ f_last[1] > 0
    /\ \E n \in 1..4 : f_last[2][n][1] = 0

(***************************************************************************)
(* Claims about calc_histograms.                                           *)
(***************************************************************************)
\* the sum of a count column over the bins lo..hi
RECURSIVE SumCounts(_, _, _)
SumCounts(col, lo, hi) ==
    IF lo > hi THEN 0
    ELSE IF lo = hi THEN col[lo]
    ELSE LET mid == (lo + hi) \div 2
         IN  SumCounts(col, lo, mid) + SumCounts(col, mid + 1, hi)

\* the pixels strictly inside the inscribed circle
StrictlyInside ==
    {px \in Pixels(h_size[1], h_size[2]) :
        LET d2 == dist_from_center(EmptyCache, px[1], px[2], h_size[1], h_size[2]).root
        IN  4 * d2 < h_size[1] * h_size[1] /\ 4 * d2 < h_size[2] * h_size[2]}

\* C6: with circular=True the counts of every channel column, summed over all
\* bins, equal the number of pixels strictly inside the inscribed circle.
C6_CircularCounts ==
    (h_pc = "done" /\ circular) =>
        \A c \in 1..3 :
            SumCounts(data[c], 0, HistEdges - 2) = Cardinality(StrictlyInside)

(***************************************************************************)
(* Claims about the normalisation.                                         *)
(***************************************************************************)
One == <<1, 1>>

\* m is the largest value of column col of arr
IsMaxOf(arr, col, m) ==
    /\ \E n \in 1..Len(arr) : arr[n][col] = m
    /\ \A n \in 1..Len(arr) : FracLeq(arr[n][col], m)

\* column col of arr is column col of old with every value divided by m
DividedBy(arr, old, col, m) ==
    /\ Len(arr) = Len(old)
    /\ \A n \in 1..Len(arr) : arr[n][col] = FracDiv(old[n][col], m)

\* C10: after the normalisation the maximum of each channel's smoothed column
\* is exactly 1, and the raw-mean, clipped and cut columns of the channel are
\* the ones before the loop divided by the maximum the smoothed column had
\* before the loop.
C10_Normalized ==
    n_pc = "done" =>
        \A col \in 2..4 :
            /\ IsMaxOf(rad_profile_smoothed, col, One)
            /\ \E m \in {n_before[4][n][col] : n \in 1..Len(n_before[4])} :
                /\ IsMaxOf(n_before[4], col, m)
                /\ DividedBy(rad_profile_raw_mean, n_before[1], col, m)
                /\ DividedBy(n_rad_profile, n_before[2], col, m)
                /\ DividedBy(rad_profile_cut, n_before[3], col, m)
                /\ DividedBy(rad_profile_smoothed, n_before[4], col, m)

\* all three channels normalised, by maxima that differ from 1 and from each
\* other, the smoothed column holding a negative value as well
C10_Witness ==
    /\ n_pc = "done"
    /\ \A col \in 2..4 : ~IsMaxOf(n_before[4], col, One)
    /\ ~(\E m \in {n_before[4][n][2] : n \in 1..Len(n_before[4])} :
            IsMaxOf(n_before[4], 2, m) /\ IsMaxOf(n_before[4], 3, m))
    /\ \E n \in 1..Len(rad_profile_smoothed) : rad_profile_smoothed[n][2][1] < 0
    /\ rad_profile_cut # n_before[3]

(***************************************************************************)
(* Claims about Start, Stop and process().                                 *)
(***************************************************************************)
\* C1: whenever stop() runs while a batch is running, at whatever point of
\* the batch, process() leaves through check_stop() == True ("interrupted")
\* and not with a result.  Stated for batches with files and without a stage
\* that raises, at the moment the batch reaches its finally block.
C1_StopInterrupts ==
    \A t \in Threads :
        (/\ p_pc[t] = "finally"
         /\ loaded_files > 0
         /\ p_stop_seen[t]
         /\ p_raised[t] = 0) => p_outcome[t] = "interrupted"

\* C2: once a stage of file n has raised, the thread only runs the handler,
\* which sets the status 'unknown error...', and the finally block, and then
\* ends: no stage of a later file of the batch is executed.
C2_ErrorAbortsBatch ==
    [][\A t \in Threads :
        /\ p_raised'[t] # 0 =>
              /\ p_pc'[t] \in {"except", "finally"}
              /\ p_counter'[t] = p_raised'[t]
        /\ (p_pc[t] = "except" /\ p_pc'[t] # "except") =>
              /\ label_status' = "unknown error..."
              /\ p_pc'[t] = "finally"
        /\ (p_raised[t] # 0 /\ p_pc[t] = "finally" /\ p_pc'[t] # "finally") =>
              p_pc'[t] = "ended"]_vars

\* a stage of the first of two files has raised and the handler has run
C2_Witness ==
    \E t \in Threads :
        /\ loaded_files = 2
        /\ p_raised[t] = 1
        /\ p_pc[t] = "finally"
        /\ p_outcome[t] = "error"
        /\ label_status = "unknown error..."

\* the thread is past the guard of lines 857-859 and works on the files
InPipeline(t) == p_pc[t] \in {"loop", "select", "stage", "check", "finish"}

\* C18: at most one thread at a time is past the "if self.running" guard and
\* executes the pipeline, for any interleaving of Start clicks and batches.
C18_MutualExclusion ==
    \A t \in Threads : \A u \in Threads :
        (InPipeline(t) /\ InPipeline(u)) => t = u

\* no other thread is working on a file
OthersAtRest(t) ==
    \A u \in Threads : u # t => p_pc[u] \in {"none", "guard", "ended"}

\* C13: whenever the processing of a file begins (the first file of a batch
\* or a later one), the distance cache holds no entry computed for a file
\* processed before, whatever way that file's processing ended.
C13_CacheLifetime ==
    \A t \in Threads :
        (/\ p_pc[t] = "stage"
         /\ p_stage[t] = "load"
         /\ OthersAtRest(t)) => ~cache_used

\* C14: after a Stop request made while a stage is executing, that stage
\* completes and no further stage, of the same file or of the next file of the
\* batch (its load included), is started before the batch stops.  Stated for a
\* batch that runs alone.
C14_NoFurtherStage ==
    \A t \in Threads :
        (/\ \A u \in Threads : u # t => p_pc[u] = "none"
         /\ p_stop_stage[t] # <<>>
         /\ p_pc[t] = "stage") => p_stop_stage[t] = <<p_counter[t], p_stage[t]>>

\* C19: for every file of a batch, the synthetic-flat stage runs only after
\* the radial-profile stage has run for that same file and uses that file's
\* smoothed profile, for any sequence of toggles of the two options, also
\* when the toggles are interleaved with the running batch.
C19_ProfileOfSameFile ==
    \A t \in Threads :
        (p_pc[t] = "check" /\ p_stage[t] = "synthflat") =>
            p_radprof[t] = p_counter[t]

====
